---- MODULE Spec2Model ----
(***************************************************************************)
(* Fitness tracker service: the four entity stores and the request         *)
(* handlers of the two revisions of the service.                           *)
(*   revision "index"  : src/src/index.ts      (no authentication)         *)
(*   revision "auth"   : src/unnamed/part_000  (JWT-guarded routes)        *)
(* A handler runs to completion as one step: none of them awaits anything. *)
(* The response of the last request is kept in `res`.  Request fields are  *)
(* strings or absent, except `duration`, which is any JSON number or       *)
(* string: revision "auth" does not test its type.  The clock `now` is     *)
(* read by the User constructor only (the createdAt of the other records   *)
(* is read by no handler and is left out) and advances at each reading.    *)
(***************************************************************************)
EXTENDS Integers, Sequences, FiniteSets, Bags, TLC

VARIABLES revision, usersStorage, activitiesStorage, challengesStorage,
          followsStorage, now, res, inflight

vars == <<revision, usersStorage, activitiesStorage, challengesStorage,
          followsStorage, now, res, inflight>>

stores == <<usersStorage, activitiesStorage, challengesStorage, followsStorage>>

(***************************************************************************)
(* Bounds of the model.                                                    *)
(***************************************************************************)
\* the number of successful writes (records created, challenges joined) a
\* behaviour makes
MaxWrites == 4

\* the number of requests that have arrived and are not yet answered
MaxInflight == 2

Revisions == {"index", "auth"}

\* uuidv4() draws an identifier at random: any identifier not yet in use.
\* The key order of the user store (the order of values()) is therefore not
\* the order of registration.  The identifiers of the other stores are only
\* ever looked up, never ordered, and are numbered as they are drawn.
UserIds == 1..2
ChallengeIds == 1..2

\* an identifier uuidv4() never drew: requests may name it all the same
GhostId == Cardinality(UserIds) + 1

\* The absent / empty request field (undefined or "": falsy in JavaScript).
NoId == 0

(***************************************************************************)
(* JavaScript values of the `duration` field and of `points`.              *)
(***************************************************************************)
Num(n) == [t |-> "number", n |-> n, s |-> ""]
Str(s) == [t |-> "string", n |-> 0, s |-> s]
Undefined == [t |-> "undefined", n |-> 0, s |-> ""]

\* !v is false
Truthy(v) ==
  CASE v.t = "number" -> v.n # 0
    [] v.t = "string" -> v.s # ""
    [] OTHER -> FALSE

JsToString(v) ==
  CASE v.t = "number" -> ToString(v.n)
    [] v.t = "string" -> v.s
    [] OTHER -> "undefined"

\* a + b (and a += b): numeric addition of two numbers, string concatenation
\* as soon as one operand is a string.
JsAdd(a, b) ==
  IF a.t = "number" /\ b.t = "number"
    THEN Num(a.n + b.n)
    ELSE Str(JsToString(a) \o JsToString(b))

(***************************************************************************)
(* Request inputs.                                                         *)
(***************************************************************************)
Names == {"", "Al"}

\* e-mail addresses as sequences of characters
Emails == { <<>>,
            <<"a", "@", "x", ".", "c">>,
            <<"A", "@", "x", ".", "c">>,
            <<"a", "@", "x">>,
            <<"a", " ", "@", "x", ".", "c">> }

RegisterPasswords == {"", "pw1"}
LoginPasswords == {"", "pw1", "pw2"}

Types == {"", "run"}
Dates == {"", "2024-01-01"}
Durations == { Num(0), Num(30), Num(-5), Str("30") }

Titles == {"", "T"}
Descriptions == {"", "D"}

\* The Authorization header, split at " " (absent: the empty sequence).
Tokens == { [key |-> "SECRET_KEY", expired |-> FALSE],
            [key |-> "SECRET_KEY", expired |-> TRUE],
            [key |-> "guess", expired |-> FALSE] }
Headers == { <<>> } \cup { <<"Bearer", t>> : t \in Tokens }

(***************************************************************************)
(* Helpers of both revisions.                                              *)
(***************************************************************************)
\* [^\s@]
NotSpaceNorAt(c) == c # " " /\ c # "@"

\* /^[^\s@]+@[^\s@]+\.[^\s@]+$/.test(email)
emailRegex(email) ==
  \E i \in 1..Len(email) : \E j \in 1..Len(email) :
    /\ 1 < i /\ i + 1 < j /\ j < Len(email)
    /\ email[i] = "@"
    /\ email[j] = "."
    /\ \A k \in 1..Len(email) : k # i => NotSpaceNorAt(email[k])

\* new Date(date): a time value, or Invalid Date for text that does not parse
NewDate(date) ==
  IF date = "2024-01-01"
    THEN [valid |-> TRUE, day |-> 19723]
    ELSE [valid |-> FALSE, day |-> 0]

\* StableBTreeMap: get(id).Some, insert(id, record), values() in key order
Has(storage, id) == id \in DOMAIN storage

Insert(storage, id, record) ==
  [k \in DOMAIN storage \cup {id} |-> IF k = id THEN record ELSE storage[k]]

Values(storage) == { storage[k] : k \in DOMAIN storage }

Fresh(ids, storage) == ids \ DOMAIN storage

NextId(storage) == Cardinality(DOMAIN storage) + 1

EmptyStore == [k \in {} |-> 0]

RECURSIVE SumLen(_, _)
SumLen(storage, ids) ==
  IF ids = {} THEN 0
  ELSE LET k == CHOOSE k \in ids : TRUE
       IN Len(storage[k].participants) + SumLen(storage, ids \ {k})

\* the writes made so far
Writes ==
  Cardinality(DOMAIN usersStorage) + Cardinality(DOMAIN activitiesStorage)
    + Cardinality(DOMAIN challengesStorage) + Cardinality(DOMAIN followsStorage)
    + SumLen(challengesStorage, DOMAIN challengesStorage)

Response(status, error) == [status |-> status, error |-> error]

Init ==
  /\ revision \in Revisions
  /\ usersStorage = EmptyStore
  /\ activitiesStorage = EmptyStore
  /\ challengesStorage = EmptyStore
  /\ followsStorage = EmptyStore
  /\ now = 0
  /\ res = Response(0, "")
  /\ inflight = EmptyBag

(***************************************************************************)
(* Revision "index": src/src/index.ts                                      *)
(***************************************************************************)
\* new User(name, email)
NewUser(id, name, email) ==
  [id |-> id, name |-> name, email |-> email, points |-> Num(0), createdAt |-> now]

\* new Activity(userId, type, duration, date)
NewActivity(id, userId, type, duration, date) ==
  [id |-> id, userId |-> userId, type |-> type, duration |-> duration,
   date |-> date]

\* a Challenge that opens with its creator already taking part
NewChallenge_CreatorJoins(id, creatorId, title, description) ==
  [id |-> id, creatorId |-> creatorId, title |-> title,
   description |-> description, participants |-> <<creatorId>>]

\* new Challenge(creatorId, title, description)
NewChallenge(id, creatorId, title, description) ==
  [id |-> id, creatorId |-> creatorId, title |-> title,
   description |-> description, participants |-> <<>>]

\* new Follow(followerId, followingId)
NewFollow(id, followerId, followingId) ==
  [id |-> id, followerId |-> followerId, followingId |-> followingId]

\* a registration that scans no stored user for the email
existingUser_NoScan(email) == \E user \in {} : user.email = email

\* usersStorage.values().find((user) => user.email === email)
existingUser(email) == \E user \in Values(usersStorage) : user.email = email

\* user.points += duration; usersStorage.insert(user.id, user)
AccruePoints(userId, duration) ==
  Insert(usersStorage, userId,
         [usersStorage[userId] EXCEPT !.points = JsAdd(@, duration)])

\* a join that stores the joiner as the only participant
PushParticipant_Replace(challengeId, userId) ==
  Insert(challengesStorage, challengeId,
         [challengesStorage[challengeId] EXCEPT !.participants = <<userId>>])

\* challenge.participants.push(userId); challengesStorage.insert(challenge.id, challenge)
PushParticipant(challengeId, userId) ==
  Insert(challengesStorage, challengeId,
         [challengesStorage[challengeId] EXCEPT !.participants = Append(@, userId)])

\* app.post("/users")
PostUsers(name, email) ==
  /\ revision = "index"
  /\ IF name = "" \/ email = <<>>
       THEN /\ res' = Response(400, "Invalid input: Ensure 'name' and 'email' are provided and are strings.")
            /\ UNCHANGED <<usersStorage, now>>
       ELSE IF ~emailRegex(email)
       THEN /\ res' = Response(400, "Invalid input: Ensure 'email' is a valid email address.")
            /\ UNCHANGED <<usersStorage, now>>
       ELSE IF existingUser(email)
       THEN /\ res' = Response(409, "User with this email already exists.")
            /\ UNCHANGED <<usersStorage, now>>
       ELSE \E id \in Fresh(UserIds, usersStorage) :
            /\ Writes < MaxWrites
            /\ usersStorage' = Insert(usersStorage, id, NewUser(id, name, email))
            /\ now' = now + 1
            /\ res' = Response(201, "")
  /\ UNCHANGED <<revision, activitiesStorage, challengesStorage, followsStorage>>

\* app.post("/activities")
PostActivities(userId, type, duration, date) ==
  /\ revision = "index"
  /\ IF \/ userId = NoId \/ type = "" \/ ~Truthy(duration)
        \/ duration.t # "number" \/ date = ""
       THEN /\ res' = Response(400, "Invalid input: Ensure 'userId', 'type', 'duration', and 'date' are provided and are of the correct types.")
            /\ UNCHANGED <<usersStorage, activitiesStorage>>
       ELSE IF ~Has(usersStorage, userId)
       THEN /\ res' = Response(404, "User with the given ID does not exist.")
            /\ UNCHANGED <<usersStorage, activitiesStorage>>
       ELSE \E id \in {NextId(activitiesStorage)} :
            /\ Writes < MaxWrites
            /\ activitiesStorage' =
                 Insert(activitiesStorage, id,
                        NewActivity(id, userId, type, duration, NewDate(date)))
            /\ usersStorage' = IF Has(usersStorage, userId)
                                 THEN AccruePoints(userId, duration)
                                 ELSE usersStorage
            /\ res' = Response(201, "")
  /\ UNCHANGED <<revision, challengesStorage, followsStorage, now>>

\* app.post("/challenges")
PostChallenges(creatorId, title, description) ==
  /\ revision = "index"
  /\ IF creatorId = NoId \/ title = "" \/ description = ""
       THEN /\ res' = Response(400, "Invalid input: Ensure 'creatorId', 'title', and 'description' are provided and are strings.")
            /\ UNCHANGED challengesStorage
       ELSE IF ~Has(usersStorage, creatorId)
       THEN /\ res' = Response(404, "User with the given ID does not exist.")
            /\ UNCHANGED challengesStorage
       ELSE \E id \in {NextId(challengesStorage)} :
            /\ Writes < MaxWrites
            /\ challengesStorage' =
                 Insert(challengesStorage, id,
                        NewChallenge(id, creatorId, title, description))
            /\ res' = Response(201, "")
  /\ UNCHANGED <<revision, usersStorage, activitiesStorage, followsStorage, now>>

\* a join that appends the participant before it looks the user up
PostJoin_PushThenLookUp(challengeId, userId) ==
  /\ revision = "index"
  /\ IF userId = NoId
       THEN /\ res' = Response(400, "Invalid input: Ensure 'userId' is provided and is a string.")
            /\ UNCHANGED challengesStorage
       ELSE IF ~Has(challengesStorage, challengeId)
       THEN /\ res' = Response(404, "Challenge not found.")
            /\ UNCHANGED challengesStorage
       ELSE /\ Writes < MaxWrites
            /\ challengesStorage' = PushParticipant(challengeId, userId)
            /\ res' = IF ~Has(usersStorage, userId)
                        THEN Response(404, "User with the given ID does not exist.")
                        ELSE Response(200, "")
  /\ UNCHANGED <<revision, usersStorage, activitiesStorage, followsStorage, now>>

\* app.post("/challenges/:challengeId/join")
PostJoin(challengeId, userId) ==
  /\ revision = "index"
  /\ IF userId = NoId
       THEN /\ res' = Response(400, "Invalid input: Ensure 'userId' is provided and is a string.")
            /\ UNCHANGED challengesStorage
       ELSE IF ~Has(challengesStorage, challengeId)
       THEN /\ res' = Response(404, "Challenge not found.")
            /\ UNCHANGED challengesStorage
       ELSE IF ~Has(usersStorage, userId)
       THEN /\ res' = Response(404, "User with the given ID does not exist.")
            /\ UNCHANGED challengesStorage
       ELSE /\ Writes < MaxWrites
            /\ challengesStorage' = PushParticipant(challengeId, userId)
            /\ res' = Response(200, "")
  /\ UNCHANGED <<revision, usersStorage, activitiesStorage, followsStorage, now>>

\* a self-follow check that never fires
SelfFollow_Never(followerId, followingId) == followerId = followingId /\ followerId = NoId

\* if (req.body.followerId === req.body.followingId)
SelfFollow(followerId, followingId) == followerId = followingId

\* a lookup result tested without its .Some: the Opt object is always truthy
followingOpt_NoSome(followingId) == TRUE

\* usersStorage.get(followingId).Some
followingOpt(followingId) == Has(usersStorage, followingId)

\* app.post("/follows")
PostFollows(followerId, followingId) ==
  /\ revision = "index"
  /\ IF followerId = NoId \/ followingId = NoId
       THEN /\ res' = Response(400, "Invalid input: Ensure 'followerId' and 'followingId' are provided and are strings.")
            /\ UNCHANGED followsStorage
       ELSE IF ~Has(usersStorage, followerId)
       THEN /\ res' = Response(404, "User with the given ID does not exist.")
            /\ UNCHANGED followsStorage
       ELSE IF SelfFollow(followerId, followingId)
       THEN /\ res' = Response(400, "Invalid input: User cannot follow themselves.")
            /\ UNCHANGED followsStorage
       ELSE IF ~followingOpt(followingId)
       THEN /\ res' = Response(404, "User with the given ID does not exist.")
            /\ UNCHANGED followsStorage
       ELSE \E id \in {NextId(followsStorage)} :
            /\ Writes < MaxWrites
            /\ followsStorage' =
                 Insert(followsStorage, id, NewFollow(id, followerId, followingId))
            /\ res' = Response(201, "")
  /\ UNCHANGED <<revision, usersStorage, activitiesStorage, challengesStorage, now>>

\* usersStorage.values(): the records in key order
RECURSIVE KeyOrder(_, _)
KeyOrder(storage, ids) ==
  IF ids = {} THEN <<>>
  ELSE LET k == CHOOSE k \in ids : \A other \in ids : k <= other
       IN <<storage[k]>> \o KeyOrder(storage, ids \ {k})

\* (a, b) => b.points - a.points, negative: a is put before b
ComparePoints(a, b) == b.points.n - a.points.n

\* one element put in its place in a sorted array: behind every element it
\* does not have to precede (Array.prototype.sort is stable)
RECURSIVE InsertSorted(_, _)
InsertSorted(sorted, x) ==
  IF sorted = <<>> THEN <<x>>
  ELSE IF ComparePoints(x, Head(sorted)) < 0
         THEN <<x>> \o sorted
         ELSE <<Head(sorted)>> \o InsertSorted(Tail(sorted), x)

\* users.sort((a, b) => b.points - a.points)
RECURSIVE SortByPoints(_)
SortByPoints(users) ==
  IF users = <<>> THEN <<>>
  ELSE InsertSorted(SortByPoints(SubSeq(users, 1, Len(users) - 1)),
                    users[Len(users)])

\* .slice(0, 10)
TopN == 10
Slice(array, n) == SubSeq(array, 1, IF Len(array) < n THEN Len(array) ELSE n)

\* app.get("/users")
GetUsers ==
  /\ revision = "index"
  /\ res' = [status |-> 200, error |-> "",
             users |-> KeyOrder(usersStorage, DOMAIN usersStorage)]
  /\ UNCHANGED <<revision, stores, now>>

\* app.get("/activities")
GetActivities ==
  /\ revision = "index"
  /\ res' = [status |-> 200, error |-> "",
             activities |-> KeyOrder(activitiesStorage, DOMAIN activitiesStorage)]
  /\ UNCHANGED <<revision, stores, now>>

\* activitiesStorage.values().filter((activity) => activity.userId === userId)
userActivities(userId) ==
  KeyOrder(activitiesStorage,
           { k \in DOMAIN activitiesStorage : activitiesStorage[k].userId = userId })

\* app.get("/activities/:userId")
GetUserActivities(userId) ==
  /\ revision = "index"
  /\ res' = [status |-> 200, error |-> "", activities |-> userActivities(userId)]
  /\ UNCHANGED <<revision, stores, now>>

\* app.get("/challenges")
GetChallenges ==
  /\ revision = "index"
  /\ res' = [status |-> 200, error |-> "",
             challenges |-> KeyOrder(challengesStorage, DOMAIN challengesStorage)]
  /\ UNCHANGED <<revision, stores, now>>

\* followsStorage.values().filter((follow) => follow.followingId === userId)
followers(userId) ==
  KeyOrder(followsStorage,
           { k \in DOMAIN followsStorage : followsStorage[k].followingId = userId })

\* app.get("/follows/:userId")
GetFollowers(userId) ==
  /\ revision = "index"
  /\ res' = [status |-> 200, error |-> "", followers |-> followers(userId)]
  /\ UNCHANGED <<revision, stores, now>>

\* the rank of key k in the key order of storage
Rank(storage, k) == Cardinality({ j \in DOMAIN storage : j <= k })

\* a leaderboard whose sort reorders the records of the store itself
GetLeaderboard_SortsStore(size, page, limit) ==
  /\ revision = "index"
  /\ res' = [status |-> 200, error |-> "",
             leaderboard |-> Slice(SortByPoints(KeyOrder(usersStorage,
                                                         DOMAIN usersStorage)),
                                   TopN)]
  /\ usersStorage' =
       [ k \in DOMAIN usersStorage |->
           SortByPoints(KeyOrder(usersStorage, DOMAIN usersStorage))
             [Rank(usersStorage, k)] ]
  /\ UNCHANGED <<revision, activitiesStorage, challengesStorage,
                 followsStorage, now>>

\* app.get("/leaderboard"): the query string (size, page, limit) is not read
GetLeaderboard(size, page, limit) ==
  /\ revision = "index"
  /\ res' = [status |-> 200, error |-> "",
             leaderboard |-> Slice(SortByPoints(KeyOrder(usersStorage,
                                                         DOMAIN usersStorage)), TopN)]
  /\ UNCHANGED <<revision, stores, now>>

(***************************************************************************)
(* Revision "auth": src/unnamed/part_000                                   *)
(***************************************************************************)
\* bcrypt.hashSync(password, 10) and bcrypt.compareSync(password, hash)
hashSync(password) == <<"$2b$10$", password>>
compareSync(password, hash) == hash = hashSync(password)

\* a verification that looks at the expiry only, not at the signature
jwtVerify_ExpiryOnly(token) == ~token.expired

\* jwt.verify(token, 'SECRET_KEY') does not throw
jwtVerify(token) == token.key = "SECRET_KEY" /\ ~token.expired

\* the response of a handler that has not answered (next() was called)
Next_ == Response(0, "")

\* authenticateToken: the rejection it sends, or Next_ when it calls next()
authenticateToken(header) ==
  IF Len(header) < 2
    THEN Response(401, "Access denied, no token provided.")
    ELSE IF ~jwtVerify(header[2])
    THEN Response(400, "Invalid token.")
    ELSE Next_

\* new User(name, email, password)
NewAuthUser(id, name, email, password) ==
  [id |-> id, name |-> name, email |-> email, password |-> hashSync(password),
   points |-> Num(0), createdAt |-> now]

\* a duplicate check that takes an edge in either direction for the same edge
existingFollow_Undirected(followerId, followingId) ==
  \E follow \in Values(followsStorage) :
    \/ follow.followerId = followerId /\ follow.followingId = followingId
    \/ follow.followerId = followingId /\ follow.followingId = followerId

\* [...followsStorage.values()].find(follow => follow.followerId === followerId
\*                                    && follow.followingId === followingId)
existingFollow(followerId, followingId) ==
  \E follow \in Values(followsStorage) :
    follow.followerId = followerId /\ follow.followingId = followingId

\* challenge.participants.includes(userId)
includes(participants, userId) ==
  \E i \in 1..Len(participants) : participants[i] = userId

\* app.post('/register')
Register(name, email, password) ==
  /\ revision = "auth"
  /\ IF name = "" \/ email = <<>> \/ password = ""
       THEN /\ res' = Response(400, "Please provide name, email, and password.")
            /\ UNCHANGED <<usersStorage, now>>
       ELSE IF ~emailRegex(email)
       THEN /\ res' = Response(400, "Invalid email format.")
            /\ UNCHANGED <<usersStorage, now>>
       ELSE IF existingUser(email)
       THEN /\ res' = Response(409, "User with this email already exists.")
            /\ UNCHANGED <<usersStorage, now>>
       ELSE \E id \in Fresh(UserIds, usersStorage) :
            /\ Writes < MaxWrites
            /\ usersStorage' =
                 Insert(usersStorage, id, NewAuthUser(id, name, email, password))
            /\ now' = now + 1
            /\ res' = Response(201, "")
  /\ UNCHANGED <<revision, activitiesStorage, challengesStorage, followsStorage>>

\* [...usersStorage.values()].find(user => user.email === email)
find(email) ==
  LET hits == { k \in DOMAIN usersStorage : usersStorage[k].email = email }
  IN IF hits = {} THEN Undefined
     ELSE usersStorage[CHOOSE k \in hits : \A j \in hits : k <= j]

\* a login that answers which of the two credentials it refused
loginFailure_Reveals(user) ==
  IF user = Undefined THEN Response(400, "Invalid email.")
                      ELSE Response(400, "Invalid password.")

\* the answer of the branch `!user || !bcrypt.compareSync(...)`
loginFailure(user) == Response(400, "Invalid email or password.")

\* the response of app.post('/login')
LoginOutcome(email, password) ==
  IF email = <<>> \/ password = ""
    THEN Response(400, "Please provide email and password.")
    ELSE LET user == find(email)
         IN IF user = Undefined \/ ~compareSync(password, user.password)
              THEN loginFailure(user)
              ELSE Response(200, "")

\* app.post('/login')
Login(email, password) ==
  /\ revision = "auth"
  /\ res' = LoginOutcome(email, password)
  /\ UNCHANGED <<revision, stores, now>>

\* app.post('/activities', authenticateToken, ...)
AuthPostActivities(header, userId, type, duration, date) ==
  /\ revision = "auth"
  /\ IF authenticateToken(header) # Next_
       THEN /\ res' = authenticateToken(header)
            /\ UNCHANGED <<usersStorage, activitiesStorage>>
       ELSE IF userId = NoId \/ type = "" \/ ~Truthy(duration) \/ date = ""
       THEN /\ res' = Response(400, "Invalid input: Ensure 'userId', 'type', 'duration', and 'date' are provided.")
            /\ UNCHANGED <<usersStorage, activitiesStorage>>
       ELSE IF ~Has(usersStorage, userId)
       THEN /\ res' = Response(404, "User with the given ID does not exist.")
            /\ UNCHANGED <<usersStorage, activitiesStorage>>
       ELSE \E id \in {NextId(activitiesStorage)} :
            /\ Writes < MaxWrites
            /\ activitiesStorage' =
                 Insert(activitiesStorage, id,
                        NewActivity(id, userId, type, duration, NewDate(date)))
            /\ usersStorage' = AccruePoints(userId, duration)
            /\ res' = Response(201, "")
  /\ UNCHANGED <<revision, challengesStorage, followsStorage, now>>

\* app.post('/challenges', authenticateToken, ...)
AuthPostChallenges(header, creatorId, title, description) ==
  /\ revision = "auth"
  /\ IF authenticateToken(header) # Next_
       THEN /\ res' = authenticateToken(header)
            /\ UNCHANGED challengesStorage
       ELSE IF creatorId = NoId \/ title = "" \/ description = ""
       THEN /\ res' = Response(400, "Invalid input: Ensure 'creatorId', 'title', and 'description' are provided.")
            /\ UNCHANGED challengesStorage
       ELSE IF ~Has(usersStorage, creatorId)
       THEN /\ res' = Response(404, "User with the given ID does not exist.")
            /\ UNCHANGED challengesStorage
       ELSE \E id \in {NextId(challengesStorage)} :
            /\ Writes < MaxWrites
            /\ challengesStorage' =
                 Insert(challengesStorage, id,
                        NewChallenge(id, creatorId, title, description))
            /\ res' = Response(201, "")
  /\ UNCHANGED <<revision, usersStorage, activitiesStorage, followsStorage, now>>

\* app.post('/challenges/:challengeId/join', authenticateToken, ...)
AuthPostJoin(header, challengeId, userId) ==
  /\ revision = "auth"
  /\ IF authenticateToken(header) # Next_
       THEN /\ res' = authenticateToken(header)
            /\ UNCHANGED challengesStorage
       ELSE IF userId = NoId
       THEN /\ res' = Response(400, "Invalid input: Ensure 'userId' is provided and is a string.")
            /\ UNCHANGED challengesStorage
       ELSE IF ~Has(challengesStorage, challengeId)
       THEN /\ res' = Response(404, "Challenge not found.")
            /\ UNCHANGED challengesStorage
       ELSE IF ~Has(usersStorage, userId)
       THEN /\ res' = Response(404, "User with the given ID does not exist.")
            /\ UNCHANGED challengesStorage
       ELSE IF includes(challengesStorage[challengeId].participants, userId)
       THEN /\ res' = Response(409, "User already joined the challenge.")
            /\ UNCHANGED challengesStorage
       ELSE /\ Writes < MaxWrites
            /\ challengesStorage' = PushParticipant(challengeId, userId)
            /\ res' = Response(200, "")
  /\ UNCHANGED <<revision, usersStorage, activitiesStorage, followsStorage, now>>

\* app.post('/follows', authenticateToken, ...)
AuthPostFollows(header, followerId, followingId) ==
  /\ revision = "auth"
  /\ IF authenticateToken(header) # Next_
       THEN /\ res' = authenticateToken(header)
            /\ UNCHANGED followsStorage
       ELSE IF followerId = NoId \/ followingId = NoId
       THEN /\ res' = Response(400, "Invalid input: Ensure 'followerId' and 'followingId' are provided.")
            /\ UNCHANGED followsStorage
       ELSE IF SelfFollow(followerId, followingId)
       THEN /\ res' = Response(400, "User cannot follow themselves.")
            /\ UNCHANGED followsStorage
       ELSE IF ~Has(usersStorage, followerId)
       THEN /\ res' = Response(404, "Follower user not found.")
            /\ UNCHANGED followsStorage
       ELSE IF ~followingOpt(followingId)
       THEN /\ res' = Response(404, "Following user not found.")
            /\ UNCHANGED followsStorage
       ELSE IF existingFollow(followerId, followingId)
       THEN /\ res' = Response(409, "Already following this user.")
            /\ UNCHANGED followsStorage
       ELSE \E id \in {NextId(followsStorage)} :
            /\ Writes < MaxWrites
            /\ followsStorage' =
                 Insert(followsStorage, id, NewFollow(id, followerId, followingId))
            /\ res' = Response(201, "")
  /\ UNCHANGED <<revision, usersStorage, activitiesStorage, challengesStorage, now>>

\* array.filter(keep), for the arrays values() returns
RECURSIVE Filter(_, _)
Filter(array, keep) ==
  IF array = <<>> THEN <<>>
  ELSE (IF keep[Head(array)] THEN <<Head(array)>> ELSE <<>>)
         \o Filter(Tail(array), keep)

\* a >= b and a <= b of two Dates: false when either is an Invalid Date
DateGeq(a, b) == a.valid /\ b.valid /\ a.day >= b.day
DateLeq(a, b) == a.valid /\ b.valid /\ a.day <= b.day

\* title.includes(part), for titles of one character
titleIncludes(title, part) == part = "" \/ part = title

\* the activities GET /activities answers for a query
ListActivities(userId, type, startDate, endDate) ==
  LET all == KeyOrder(activitiesStorage, DOMAIN activitiesStorage)
      keep == [ activity \in Values(activitiesStorage) |->
                  /\ userId # NoId => activity.userId = userId
                  /\ type # "" => activity.type = type
                  /\ startDate # "" => DateGeq(activity.date, NewDate(startDate))
                  /\ endDate # "" => DateLeq(activity.date, NewDate(endDate)) ]
  IN Filter(all, keep)

\* the challenges GET /challenges answers for a query
ListChallenges(creatorId, title) ==
  LET all == KeyOrder(challengesStorage, DOMAIN challengesStorage)
      keep == [ challenge \in Values(challengesStorage) |->
                  /\ creatorId # NoId => challenge.creatorId = creatorId
                  /\ title # "" => titleIncludes(challenge.title, title) ]
  IN Filter(all, keep)

\* res.status(200).json(array)
Json(array) == [status |-> 200, error |-> "", body |-> array]

\* app.get('/activities', authenticateToken, ...)
AuthGetActivities(header, userId, type, startDate, endDate) ==
  /\ revision = "auth"
  /\ IF authenticateToken(header) # Next_
       THEN res' = authenticateToken(header)
       ELSE res' = Json(ListActivities(userId, type, startDate, endDate))
  /\ UNCHANGED <<revision, stores, now>>

\* app.get('/challenges', authenticateToken, ...)
AuthGetChallenges(header, creatorId, title) ==
  /\ revision = "auth"
  /\ IF authenticateToken(header) # Next_
       THEN res' = authenticateToken(header)
       ELSE res' = Json(ListChallenges(creatorId, title))
  /\ UNCHANGED <<revision, stores, now>>

(***************************************************************************)
(* The service: requests arrive in any order.  The bodies tried are the    *)
(* well-formed ones (any user id, any duration) and the ones with one      *)
(* field missing; identifiers are combined freely.                         *)
(***************************************************************************)
RequestUserIds == {NoId, GhostId} \cup UserIds

UserBodies ==
  { [name |-> "Al", email |-> e, password |-> "pw1"] : e \in Emails }
    \cup { [name |-> "", email |-> <<"a", "@", "x", ".", "c">>, password |-> "pw1"],
           [name |-> "Al", email |-> <<"a", "@", "x", ".", "c">>, password |-> ""] }

ActivityBodies ==
  { [userId |-> u, type |-> "run", duration |-> d, date |-> "2024-01-01"] :
      u \in RequestUserIds, d \in Durations }
    \cup { [userId |-> u, type |-> t, duration |-> Num(30), date |-> d] :
             u \in {1}, t \in Types, d \in Dates }
    \cup { [userId |-> 1, type |-> "run", duration |-> Undefined, date |-> "2024-01-01"] }

ChallengeBodies ==
  { [creatorId |-> u, title |-> "T", description |-> "D"] : u \in RequestUserIds }
    \cup { [creatorId |-> u, title |-> t, description |-> d] :
             u \in {1}, t \in Titles, d \in Descriptions }

\* the query of GET /leaderboard
Sizes == {1, 3}
Pages == {1, 2}
Limits == {10}

\* the query of GET /activities and of GET /challenges: no filter, or one
ActivityQueries ==
  { [userId |-> NoId, type |-> "", startDate |-> "", endDate |-> ""],
    [userId |-> 1, type |-> "", startDate |-> "", endDate |-> ""],
    [userId |-> NoId, type |-> "run", startDate |-> "", endDate |-> ""],
    [userId |-> NoId, type |-> "", startDate |-> "2024-01-01", endDate |-> ""],
    [userId |-> NoId, type |-> "", startDate |-> "", endDate |-> "2024-01-01"] }

ChallengeQueries ==
  { [creatorId |-> NoId, title |-> ""],
    [creatorId |-> 1, title |-> ""],
    [creatorId |-> NoId, title |-> "T"] }

GoodHeader == <<"Bearer", [key |-> "SECRET_KEY", expired |-> FALSE]>>

\* a request that authenticateToken rejects is tried with one body only
Tried(header, body, bodies) ==
  header = GoodHeader \/ body = CHOOSE b \in bodies : TRUE

Next ==
  \/ \E b \in UserBodies :
       /\ b.password = "pw1"
       /\ PostUsers(b.name, b.email)
       /\ UNCHANGED inflight
  \/ \E b \in ActivityBodies :
       /\ PostActivities(b.userId, b.type, b.duration, b.date)
       /\ UNCHANGED inflight
  \/ \E b \in ChallengeBodies :
       /\ PostChallenges(b.creatorId, b.title, b.description)
       /\ UNCHANGED inflight
  \/ \E challengeId \in ChallengeIds, userId \in RequestUserIds :
       /\ PostJoin(challengeId, userId)
       /\ UNCHANGED inflight
  \/ \E followerId \in RequestUserIds, followingId \in RequestUserIds :
       /\ PostFollows(followerId, followingId)
       /\ UNCHANGED inflight
  \/ \E size \in Sizes, page \in Pages, limit \in Limits :
       /\ GetLeaderboard(size, page, limit)
       /\ UNCHANGED inflight
  \/ GetUsers /\ UNCHANGED inflight
  \/ GetActivities /\ UNCHANGED inflight
  \/ \E userId \in UserIds : GetUserActivities(userId) /\ UNCHANGED inflight
  \/ GetChallenges /\ UNCHANGED inflight
  \/ \E userId \in UserIds : GetFollowers(userId) /\ UNCHANGED inflight
  \/ \E b \in UserBodies :
       /\ Register(b.name, b.email, b.password)
       /\ UNCHANGED inflight
  \/ \E email \in Emails, password \in LoginPasswords :
       /\ Login(email, password)
       /\ UNCHANGED inflight
  \/ \E header \in Headers, b \in ActivityBodies :
       /\ Tried(header, b, ActivityBodies)
       /\ AuthPostActivities(header, b.userId, b.type, b.duration, b.date)
       /\ UNCHANGED inflight
  \/ \E header \in Headers, b \in ChallengeBodies :
       /\ Tried(header, b, ChallengeBodies)
       /\ AuthPostChallenges(header, b.creatorId, b.title, b.description)
       /\ UNCHANGED inflight
  \/ \E header \in Headers, challengeId \in ChallengeIds, userId \in RequestUserIds :
       /\ header = GoodHeader \/ (challengeId = 1 /\ userId = 1)
       /\ AuthPostJoin(header, challengeId, userId)
       /\ UNCHANGED inflight
  \/ \E header \in Headers, followerId \in RequestUserIds, followingId \in RequestUserIds :
       /\ header = GoodHeader \/ (followerId = 1 /\ followingId = 2)
       /\ AuthPostFollows(header, followerId, followingId)
       /\ UNCHANGED inflight
  \/ \E header \in Headers, q \in ActivityQueries :
       /\ Tried(header, q, ActivityQueries)
       /\ AuthGetActivities(header, q.userId, q.type, q.startDate, q.endDate)
       /\ UNCHANGED inflight
  \/ \E header \in Headers, q \in ChallengeQueries :
       /\ Tried(header, q, ChallengeQueries)
       /\ AuthGetChallenges(header, q.creatorId, q.title)
       /\ UNCHANGED inflight

Spec == Init /\ [][Next]_vars

(***************************************************************************)
(* Concurrent requests of revision "auth".  Express queues the callback of *)
(* every request that arrives; the event loop runs one callback at a time, *)
(* each from where it stands to its next await or to its end.  Requests    *)
(* are well formed and carry a valid token.                                *)
(***************************************************************************)
ValidEmails == { email \in Emails : emailRegex(email) }

Requests ==
  { [kind |-> "register", email |-> email, challengeId |-> NoId,
     userId |-> NoId, followingId |-> NoId] : email \in ValidEmails }
    \cup { [kind |-> "challenge", email |-> <<>>, challengeId |-> NoId,
            userId |-> 1, followingId |-> NoId] }
    \cup { [kind |-> "join", email |-> <<>>, challengeId |-> 1,
            userId |-> u, followingId |-> NoId] : u \in UserIds }
    \cup { r \in { [kind |-> "follow", email |-> <<>>, challengeId |-> NoId,
                     userId |-> a, followingId |-> b] :
                       a \in UserIds, b \in UserIds } :
             r.userId # r.followingId }

\* a register handler that awaits the hash between its check and its insert
awaits_Hash(kind) == kind = "register"

\* the handler of `kind` has an await between its checks and its writes
awaits(kind) == FALSE

\* the checks of the handler of r: the rejection it sends, or Next_
Rejection(r) ==
  IF r.kind = "register" THEN
    IF ~emailRegex(r.email)
      THEN Response(400, "Invalid email format.")
      ELSE IF existingUser(r.email)
      THEN Response(409, "User with this email already exists.")
      ELSE Next_
  ELSE IF r.kind = "challenge" THEN
    IF ~Has(usersStorage, r.userId)
      THEN Response(404, "User with the given ID does not exist.")
      ELSE Next_
  ELSE IF r.kind = "join" THEN
    IF ~Has(challengesStorage, r.challengeId)
      THEN Response(404, "Challenge not found.")
      ELSE IF ~Has(usersStorage, r.userId)
      THEN Response(404, "User with the given ID does not exist.")
      ELSE IF includes(challengesStorage[r.challengeId].participants, r.userId)
      THEN Response(409, "User already joined the challenge.")
      ELSE Next_
  ELSE
    IF SelfFollow(r.userId, r.followingId)
      THEN Response(400, "User cannot follow themselves.")
      ELSE IF ~Has(usersStorage, r.userId)
      THEN Response(404, "Follower user not found.")
      ELSE IF ~followingOpt(r.followingId)
      THEN Response(404, "Following user not found.")
      ELSE IF existingFollow(r.userId, r.followingId)
      THEN Response(409, "Already following this user.")
      ELSE Next_

\* the writes and the answer of the handler of r, its checks passed
Effect(r) ==
  /\ Writes < MaxWrites
  /\ IF r.kind = "register" THEN
       \E id \in Fresh(UserIds, usersStorage) :
         /\ usersStorage' =
              Insert(usersStorage, id, NewAuthUser(id, "Al", r.email, "pw1"))
         /\ now' = now + 1
         /\ res' = Response(201, "")
         /\ UNCHANGED <<activitiesStorage, challengesStorage, followsStorage>>
     ELSE IF r.kind = "challenge" THEN
       /\ challengesStorage' =
            Insert(challengesStorage, NextId(challengesStorage),
                   NewChallenge(NextId(challengesStorage), r.userId, "T", "D"))
       /\ res' = Response(201, "")
       /\ UNCHANGED <<usersStorage, activitiesStorage, followsStorage, now>>
     ELSE IF r.kind = "join" THEN
       /\ challengesStorage' = PushParticipant(r.challengeId, r.userId)
       /\ res' = Response(200, "")
       /\ UNCHANGED <<usersStorage, activitiesStorage, followsStorage, now>>
     ELSE
       /\ followsStorage' =
            Insert(followsStorage, NextId(followsStorage),
                   NewFollow(NextId(followsStorage), r.userId, r.followingId))
       /\ res' = Response(201, "")
       /\ UNCHANGED <<usersStorage, activitiesStorage, challengesStorage, now>>

\* r with its handler standing at pc
At(r, pc, arrived) ==
  [kind |-> r.kind, email |-> r.email, challengeId |-> r.challengeId,
   userId |-> r.userId, followingId |-> r.followingId, pc |-> pc,
   arrived |-> arrived]

\* a request arrives: its callback is queued
Arrive(r) ==
  /\ revision = "auth"
  /\ BagCardinality(inflight) < MaxInflight
  /\ inflight' = inflight (+) SetToBag({At(r, "queued", now)})
  /\ UNCHANGED <<revision, stores, now, res>>

\* the event loop runs the callback of q to its next await or to its end
Run(q) ==
  /\ revision = "auth"
  /\ IF q.pc = "queued" /\ Rejection(q) # Next_
       THEN /\ res' = Rejection(q)
            /\ inflight' = inflight (-) SetToBag({q})
            /\ UNCHANGED <<stores, now>>
       ELSE IF q.pc = "queued" /\ awaits(q.kind)
       THEN /\ inflight' = (inflight (-) SetToBag({q}))
                             (+) SetToBag({At(q, "awaiting", q.arrived)})
            /\ UNCHANGED <<stores, now, res>>
       ELSE /\ Effect(q)
            /\ inflight' = inflight (-) SetToBag({q})
  /\ UNCHANGED revision

InitAsync == Init /\ revision = "auth"

NextAsync ==
  \/ \E r \in Requests : Arrive(r)
  \/ \E q \in BagToSet(inflight) : Run(q)

SpecAsync == InitAsync /\ [][NextAsync]_vars

(***************************************************************************)
(* The operations as the specification names them, in either revision,     *)
(* called by an authenticated caller with a well-formed body.              *)
(***************************************************************************)
RecordCall(userId, duration) ==
  \/ PostActivities(userId, "run", duration, "2024-01-01")
  \/ AuthPostActivities(GoodHeader, userId, "run", duration, "2024-01-01")

JoinCall(challengeId, userId) ==
  \/ PostJoin(challengeId, userId)
  \/ AuthPostJoin(GoodHeader, challengeId, userId)

FollowCall(followerId, followingId) ==
  \/ PostFollows(followerId, followingId)
  \/ AuthPostFollows(GoodHeader, followerId, followingId)

Created == Response(201, "")
Joined == Response(200, "")
DuplicateEmail == Response(409, "User with this email already exists.")
AlreadyJoined == Response(409, "User already joined the challenge.")
AlreadyFollowing == Response(409, "Already following this user.")
IsSelfFollow(r) ==
  /\ r.status = 400
  /\ r.error \in { "User cannot follow themselves.",
                   "Invalid input: User cannot follow themselves." }

\* the Follow records of the edge followerId -> followingId
Edges(storage, followerId, followingId) ==
  { k \in DOMAIN storage :
      storage[k].followerId = followerId /\ storage[k].followingId = followingId }

\* the arithmetic sum of the durations of the activities of a user
RECURSIVE SumDuration(_, _)
SumDuration(userId, ids) ==
  IF ids = {} THEN 0
  ELSE LET k == CHOOSE k \in ids : TRUE
       IN (IF activitiesStorage[k].userId = userId
             THEN activitiesStorage[k].duration.n ELSE 0)
          + SumDuration(userId, ids \ {k})

ActivitiesOf(userId) ==
  { k \in DOMAIN activitiesStorage : activitiesStorage[k].userId = userId }

(***************************************************************************)
(* C1: no two Users of the user store have the same email.                 *)
(***************************************************************************)
C1_UniqueEmail ==
  \A i \in DOMAIN usersStorage : \A j \in DOMAIN usersStorage :
    usersStorage[i].email = usersStorage[j].email => i = j

\* two users are stored and a registration has just been refused as duplicate
C1_Witness ==
  /\ Cardinality(DOMAIN usersStorage) = 2
  /\ res = DuplicateEmail

(***************************************************************************)
(* C2: every successful record-activity call with duration d for user u    *)
(* leaves u.points equal to its value before the call plus d.              *)
(***************************************************************************)
C2_PointsPlusDuration ==
  [][\A u \in DOMAIN usersStorage : \A d \in Durations :
       (RecordCall(u, d) /\ res' = Created) =>
         /\ d.t = "number"
         /\ usersStorage[u].points.t = "number"
         /\ usersStorage'[u].points = Num(usersStorage[u].points.n + d.n)]_vars

(***************************************************************************)
(* C3: for every user u, u.points is the sum of duration over the stored   *)
(* Activities with userId = u.id.                                          *)
(***************************************************************************)
C3_PointsAreSumOfDurations ==
  \A u \in DOMAIN usersStorage :
    /\ \A k \in ActivitiesOf(u) : activitiesStorage[k].duration.t = "number"
    /\ usersStorage[u].points = Num(SumDuration(u, DOMAIN activitiesStorage))

(***************************************************************************)
(* C4: the participants of every Challenge hold each User id at most once. *)
(***************************************************************************)
C4_NoDuplicateParticipant ==
  \A c \in DOMAIN challengesStorage :
    LET p == challengesStorage[c].participants
    IN \A i \in 1..Len(p) : \A j \in 1..Len(p) : p[i] = p[j] => i = j

(***************************************************************************)
(* C5: for an existing Challenge c and an existing User u, join(c, u)      *)
(* appends u when u is not a participant, and fails with AlreadyJoined,    *)
(* changing no store, when u is one already.                               *)
(***************************************************************************)
C5_JoinTwice ==
  [][\A c \in DOMAIN challengesStorage : \A u \in DOMAIN usersStorage :
       JoinCall(c, u) =>
         IF includes(challengesStorage[c].participants, u)
           THEN res' = AlreadyJoined /\ UNCHANGED stores
           ELSE /\ res' = Joined
                /\ challengesStorage'[c].participants
                     = Append(challengesStorage[c].participants, u)]_vars

(***************************************************************************)
(* C6: no two Follow records have the same (followerId, followingId), and  *)
(* no Follow record has followerId = followingId.                          *)
(***************************************************************************)
C6_FollowPairsUnique ==
  \A i \in DOMAIN followsStorage :
    /\ followsStorage[i].followerId # followsStorage[i].followingId
    /\ \A j \in DOMAIN followsStorage :
         (/\ followsStorage[i].followerId = followsStorage[j].followerId
          /\ followsStorage[i].followingId = followsStorage[j].followingId) => i = j

(***************************************************************************)
(* C7: for existing distinct users A and B with a Follow record (A, B), a  *)
(* further follow(A, B) fails with AlreadyFollowing and leaves the follow  *)
(* store unchanged.                                                        *)
(***************************************************************************)
C7_FollowTwice ==
  [][\A a \in DOMAIN usersStorage : \A b \in DOMAIN usersStorage :
       (a # b /\ Edges(followsStorage, a, b) # {} /\ FollowCall(a, b)) =>
         res' = AlreadyFollowing /\ UNCHANGED followsStorage]_vars

(***************************************************************************)
(* C8: for every registered user A, follow(A, A) fails with SelfFollow and *)
(* writes no Follow record.                                                *)
(***************************************************************************)
C8_SelfFollowRejected ==
  [][\A a \in DOMAIN usersStorage :
       FollowCall(a, a) => IsSelfFollow(res') /\ UNCHANGED followsStorage]_vars

\* a registered user has just been refused a self-follow (revision "index"
\* answers so only once the follower is known to exist), with follows stored
C8_Witness ==
  /\ revision = "index"
  /\ IsSelfFollow(res)
  /\ DOMAIN followsStorage # {}

(***************************************************************************)
(* C9: for existing distinct users A and B, a Follow record (A, B) does    *)
(* not make follow(B, A) fail: it succeeds, adds the one record (B, A) and *)
(* leaves the records (A, B) as they were.                                 *)
(***************************************************************************)
C9_ReverseEdgeIndependent ==
  [][\A a \in DOMAIN usersStorage : \A b \in DOMAIN usersStorage :
       (/\ a # b
        /\ Edges(followsStorage, a, b) # {}
        /\ Edges(followsStorage, b, a) = {}
        /\ FollowCall(b, a)) =>
         /\ res' = Created
         /\ Cardinality(Edges(followsStorage', b, a)) = 1
         /\ Edges(followsStorage', a, b) = Edges(followsStorage, a, b)]_vars

\* both directions between two users are stored, one record each, the second
\* having just been created
C9_Witness ==
  /\ res = Created
  /\ \E a \in DOMAIN usersStorage : \E b \in DOMAIN usersStorage :
       /\ a # b
       /\ Cardinality(Edges(followsStorage, a, b)) = 1
       /\ Cardinality(Edges(followsStorage, b, a)) = 1
       /\ Cardinality(DOMAIN followsStorage) = 2

(***************************************************************************)
(* C10: every userId, creatorId, followerId, followingId and participant   *)
(* stored is the id of a User of the user store.                           *)
(***************************************************************************)
C10_ReferencesExist ==
  /\ \A k \in DOMAIN activitiesStorage :
       Has(usersStorage, activitiesStorage[k].userId)
  /\ \A c \in DOMAIN challengesStorage :
       /\ Has(usersStorage, challengesStorage[c].creatorId)
       /\ \A i \in 1..Len(challengesStorage[c].participants) :
            Has(usersStorage, challengesStorage[c].participants[i])
  /\ \A f \in DOMAIN followsStorage :
       /\ Has(usersStorage, followsStorage[f].followerId)
       /\ Has(usersStorage, followsStorage[f].followingId)

\* a follow between two users is stored next to an activity, and a request
\* naming an unknown user has just been refused
C10_Witness ==
  /\ DOMAIN followsStorage # {}
  /\ DOMAIN activitiesStorage # {}
  /\ res.status = 404

(***************************************************************************)
(* C11: an operation that answers with a failure leaves the four stores    *)
(* as they were before the call.                                           *)
(***************************************************************************)
Failure(r) == r.status \in {400, 401, 404, 409, 500}

C11_FailureWritesNothing ==
  [][Failure(res') => UNCHANGED stores]_vars

\* every kind of record is stored and a request has just been refused
C11_Witness ==
  /\ Failure(res)
  /\ DOMAIN usersStorage # {}
  /\ DOMAIN activitiesStorage # {}
  /\ \E c \in DOMAIN challengesStorage : challengesStorage[c].participants # <<>>

(***************************************************************************)
(* C12: registering, with an otherwise well-formed body, an email that a   *)
(* stored User has fails with DuplicateEmail; the user store is unchanged  *)
(* and holds exactly one User with that email.                             *)
(***************************************************************************)
RegisterCall(email) ==
  \/ PostUsers("Al", email)
  \/ Register("Al", email, "pw1")

UsersWithEmail(storage, email) ==
  { k \in DOMAIN storage : storage[k].email = email }

C12_DuplicateEmailRejected ==
  [][\A email \in Emails :
       (UsersWithEmail(usersStorage, email) # {} /\ RegisterCall(email)) =>
         /\ res' = DuplicateEmail
         /\ usersStorage' = usersStorage
         /\ Cardinality(UsersWithEmail(usersStorage', email)) = 1]_vars

\* the only stored user has just been registered a second time, in vain
C12_Witness ==
  /\ Cardinality(DOMAIN usersStorage) = 1
  /\ res = DuplicateEmail

(***************************************************************************)
(* C13: the points of every user are a non-negative integer in every       *)
(* state and never decrease from one state to the next.                    *)
(***************************************************************************)
C13_PointsNonNegativeMonotone ==
  [][\A u \in DOMAIN usersStorage' :
       /\ usersStorage'[u].points.t = "number"
       /\ usersStorage'[u].points.n >= 0
       /\ u \in DOMAIN usersStorage =>
            usersStorage'[u].points.n >= usersStorage[u].points.n]_vars

(***************************************************************************)
(* C14: the leaderboard lists the Users by points, highest first, Users of *)
(* equal points in the order of their creation, cut to the top `size`.     *)
(***************************************************************************)
\* a is ranked before b
RankedBefore(a, b) ==
  \/ a.points.n > b.points.n
  \/ a.points.n = b.points.n /\ a.createdAt < b.createdAt

Min(a, b) == IF a < b THEN a ELSE b

\* ranking is the top `size` of the users, best first, ties by creation
IsTopBySizeAndCreation(ranking, size) ==
  /\ Len(ranking) = Min(size, Cardinality(DOMAIN usersStorage))
  /\ \A i \in 1..Len(ranking) : ranking[i] \in Values(usersStorage)
  /\ \A i \in 1..Len(ranking) : \A j \in 1..Len(ranking) :
       i < j => RankedBefore(ranking[i], ranking[j])
  /\ \A i \in 1..Len(ranking) : \A user \in Values(usersStorage) :
       (\A j \in 1..Len(ranking) : ranking[j] # user) =>
         RankedBefore(ranking[i], user)

C14_LeaderboardOrder ==
  [][\A size \in Sizes : \A limit \in Limits :
       (limit >= size /\ GetLeaderboard(size, 1, limit)) =>
         IsTopBySizeAndCreation(res'.leaderboard, size)]_vars

(***************************************************************************)
(* C15: the leaderboard answers the window of `limit` entries at offset    *)
(* (page - 1) * limit of the ranking cut to `size`: nothing when the       *)
(* offset is at or beyond `size`.                                          *)
(***************************************************************************)
Window(ranking, offset, limit) ==
  IF offset >= Len(ranking) THEN <<>>
  ELSE SubSeq(ranking, offset + 1, Min(offset + limit, Len(ranking)))

C15_PaginationAfterTruncation ==
  [][\A size \in Sizes : \A page \in Pages : \A limit \in Limits :
       GetLeaderboard(size, page, limit) =>
         res'.leaderboard =
           Window(Slice(SortByPoints(KeyOrder(usersStorage, DOMAIN usersStorage)),
                        size),
                  (page - 1) * limit, limit)]_vars

(***************************************************************************)
(* C16: a login refused for an email that no User has and a login refused  *)
(* for a registered email with a wrong password have the same outcome,     *)
(* status and message, and neither changes a store.                        *)
(***************************************************************************)
NoSuchEmail(email) == UsersWithEmail(usersStorage, email) = {}

WrongPassword(email, password) ==
  /\ UsersWithEmail(usersStorage, email) # {}
  /\ \A k \in UsersWithEmail(usersStorage, email) :
       usersStorage[k].password # hashSync(password)

C16_LoginFailuresAlike ==
  [][revision = "auth" =>
       \A e2 \in Emails \ {<<>>} : \A p2 \in LoginPasswords \ {""} :
         WrongPassword(e2, p2) =>
           \A e1 \in Emails \ {<<>>} : \A p1 \in LoginPasswords \ {""} :
             (NoSuchEmail(e1) /\ (Login(e1, p1) \/ Login(e2, p2))) =>
               /\ Failure(res')
               /\ res' = LoginOutcome(e1, p1)
               /\ res' = LoginOutcome(e2, p2)
               /\ UNCHANGED stores]_vars

\* every valid address is registered and a login has just been refused
C16_Witness ==
  /\ revision = "auth"
  /\ Cardinality(DOMAIN usersStorage) = Cardinality(UserIds)
  /\ res.status = 400
  /\ res.error = "Invalid email or password."

(***************************************************************************)
(* C18: follow checks, in this order, that the follower exists, that the   *)
(* followed user exists, that the two differ, that the edge is new: a      *)
(* follow(X, X) of an unregistered X fails with FollowerNotFound, and a    *)
(* follow(A, Y) of a registered A and an unregistered Y fails with         *)
(* FollowingNotFound.                                                      *)
(***************************************************************************)
FollowerNotFound(r) ==
  /\ r.status = 404
  /\ r.error \in { "Follower user not found.",
                   "User with the given ID does not exist." }

FollowingNotFound(r) ==
  /\ r.status = 404
  /\ r.error \in { "Following user not found.",
                   "User with the given ID does not exist." }

Unregistered == (RequestUserIds \ {NoId}) \ DOMAIN usersStorage

C18_FollowCheckOrder ==
  [][/\ \A x \in Unregistered :
          FollowCall(x, x) => FollowerNotFound(res')
     /\ \A a \in DOMAIN usersStorage : \A y \in Unregistered :
          FollowCall(a, y) => FollowingNotFound(res')]_vars

(***************************************************************************)
(* C19: recording, for a stored user, an activity whose duration is zero,  *)
(* negative or not a number fails with InvalidInput, stores no Activity    *)
(* and changes no points; every stored Activity has a positive numeric     *)
(* duration.                                                               *)
(***************************************************************************)
PositiveNumber(duration) == duration.t = "number" /\ duration.n > 0

C19_DurationPositive ==
  [][/\ \A u \in DOMAIN usersStorage : \A d \in Durations \cup {Undefined} :
          (~PositiveNumber(d) /\ RecordCall(u, d)) =>
            /\ res'.status = 400
            /\ UNCHANGED <<activitiesStorage, usersStorage>>
     /\ \A k \in DOMAIN activitiesStorage' :
          PositiveNumber(activitiesStorage'[k].duration)]_vars

(***************************************************************************)
(* C20: a Challenge is created with no participants, its creator           *)
(* included, and a user id enters the participants of a Challenge only in  *)
(* a join(challenge, user) call for that id that succeeds.                 *)
(***************************************************************************)
Participants(storage, c) ==
  { storage[c].participants[i] : i \in 1..Len(storage[c].participants) }

C20_ParticipantsOnlyByJoin ==
  [][/\ \A c \in DOMAIN challengesStorage' \ DOMAIN challengesStorage :
          Participants(challengesStorage', c) = {}
     /\ \A c \in DOMAIN challengesStorage' \cap DOMAIN challengesStorage :
          \A u \in Participants(challengesStorage', c)
                     \ Participants(challengesStorage, c) :
            JoinCall(c, u) /\ res' = Joined]_vars

\* a user has just joined a Challenge whose creator takes no part in it
C20_Witness ==
  /\ res = Joined
  /\ \E c \in DOMAIN challengesStorage :
       /\ Participants(challengesStorage, c) # {}
       /\ challengesStorage[c].creatorId \notin Participants(challengesStorage, c)

(***************************************************************************)
(* C17: the handlers of register, join and follow run their checks and     *)
(* their writes in one step, so that whatever the order in which the       *)
(* requests in flight are served, no two Users share an email, no two      *)
(* Follow records share a pair and no participant is listed twice.         *)
(***************************************************************************)
\* the handler of q, served alone
Handler(q) ==
  IF q.kind = "register" THEN Register("Al", q.email, "pw1")
  ELSE IF q.kind = "challenge" THEN AuthPostChallenges(GoodHeader, q.userId, "T", "D")
  ELSE IF q.kind = "join" THEN AuthPostJoin(GoodHeader, q.challengeId, q.userId)
  ELSE AuthPostFollows(GoodHeader, q.userId, q.followingId)

NoTwoAlike ==
  /\ \A j \in DOMAIN usersStorage : \A k \in DOMAIN usersStorage :
       usersStorage[j].email = usersStorage[k].email => j = k
  /\ \A j \in DOMAIN followsStorage : \A k \in DOMAIN followsStorage :
       ( /\ followsStorage[j].followerId = followsStorage[k].followerId
         /\ followsStorage[j].followingId = followsStorage[k].followingId ) => j = k
  /\ \A c \in DOMAIN challengesStorage :
       Cardinality(Participants(challengesStorage, c))
         = Len(challengesStorage[c].participants)

C17_HandlersAtomic ==
  [][/\ \A q \in BagToSet(inflight) : Run(q) => Handler(q)
     /\ NoTwoAlike']_vars

\* a registration has succeeded while another for the same email, which
\* had arrived before, is still in flight
C17_Witness ==
  /\ res = Created
  /\ \E k \in DOMAIN usersStorage : \E q \in BagToSet(inflight) :
       /\ q.kind = "register"
       /\ q.email = usersStorage[k].email
       /\ q.arrived <= usersStorage[k].createdAt

(***************************************************************************)
(* C21: in revision "auth", recording an activity, creating a challenge,   *)
(* joining, following, listing activities and listing challenges with a    *)
(* missing, forged or expired token are answered by authenticateToken and  *)
(* change no store; register and login are never answered by it.           *)
(***************************************************************************)
Unauthorized(r) ==
  r \in { Response(401, "Access denied, no token provided."),
          Response(400, "Invalid token.") }

\* a request to a route registered with authenticateToken; one that is to
\* be turned away is tried with one body, as the service tries it
Guarded(header) ==
  \/ \E b \in { CHOOSE b \in ActivityBodies : TRUE } :
       AuthPostActivities(header, b.userId, b.type, b.duration, b.date)
  \/ \E b \in { CHOOSE b \in ChallengeBodies : TRUE } :
       AuthPostChallenges(header, b.creatorId, b.title, b.description)
  \/ AuthPostJoin(header, 1, 1)
  \/ AuthPostFollows(header, 1, 2)
  \/ \E q \in { CHOOSE q \in ActivityQueries : TRUE } :
       AuthGetActivities(header, q.userId, q.type, q.startDate, q.endDate)
  \/ \E q \in { CHOOSE q \in ChallengeQueries : TRUE } :
       AuthGetChallenges(header, q.creatorId, q.title)

Unguarded ==
  \/ \E b \in UserBodies : Register(b.name, b.email, b.password)
  \/ \E email \in Emails, password \in LoginPasswords : Login(email, password)

C21_TokenRequired ==
  [][revision = "auth" =>
       /\ \A header \in Headers \ {GoodHeader} :
            (Unauthorized(res') /\ UNCHANGED stores) \/ ~Guarded(header)
       /\ ~Unauthorized(res') \/ ~Unguarded]_vars

\* user 1 could have joined challenge 1, but a request was turned away for
\* its token
C21_Witness ==
  /\ res = Response(400, "Invalid token.")
  /\ Has(usersStorage, 1)
  /\ Has(challengesStorage, 1)
  /\ challengesStorage[1].participants = <<>>

(***************************************************************************)
(* C22: listing users, activities, challenges or followers, reading the    *)
(* leaderboard and logging in change no store, the order in which the user *)
(* store enumerates included; the answer of each is the answer the same    *)
(* read gives in the state it leaves, so that a read repeated with no      *)
(* write in between answers the same.                                      *)
(***************************************************************************)
\* the answer has the field
Answers(field) == field \in DOMAIN res'

\* the step is a read and its answer is the one a repeat would get
ReadRepeats ==
  /\ (Answers("users") /\ GetUsers) =>
       res'.users = KeyOrder(usersStorage', DOMAIN usersStorage')
  /\ (Answers("activities") /\ GetActivities) =>
       res'.activities = KeyOrder(activitiesStorage', DOMAIN activitiesStorage')
  /\ \A userId \in UserIds :
       (Answers("activities") /\ GetUserActivities(userId)) =>
         res'.activities = userActivities(userId)'
  /\ (Answers("challenges") /\ GetChallenges) =>
       res'.challenges = KeyOrder(challengesStorage', DOMAIN challengesStorage')
  /\ \A userId \in UserIds :
       (Answers("followers") /\ GetFollowers(userId)) =>
         res'.followers = followers(userId)'
  /\ \A size \in Sizes : \A page \in Pages : \A limit \in Limits :
       (Answers("leaderboard") /\ GetLeaderboard(size, page, limit)) =>
         res'.leaderboard =
           Slice(SortByPoints(KeyOrder(usersStorage', DOMAIN usersStorage')), TopN)
  /\ \A email \in Emails : \A password \in LoginPasswords :
       (res'.status \in {200, 400} /\ Login(email, password)) =>
         res' = LoginOutcome(email, password)'
  /\ \A q \in ActivityQueries :
       ( /\ Answers("body")
         /\ AuthGetActivities(GoodHeader, q.userId, q.type, q.startDate, q.endDate) )
         => res'.body = ListActivities(q.userId, q.type, q.startDate, q.endDate)'
  /\ \A q \in ChallengeQueries :
       (Answers("body") /\ AuthGetChallenges(GoodHeader, q.creatorId, q.title)) =>
         res'.body = ListChallenges(q.creatorId, q.title)'

IsRead ==
  \/ GetUsers
  \/ GetActivities
  \/ \E userId \in UserIds : GetUserActivities(userId) \/ GetFollowers(userId)
  \/ GetChallenges
  \/ \E size \in Sizes, page \in Pages, limit \in Limits :
       GetLeaderboard(size, page, limit)
  \/ \E email \in Emails, password \in LoginPasswords : Login(email, password)
  \/ \E header \in Headers, q \in ActivityQueries :
       AuthGetActivities(header, q.userId, q.type, q.startDate, q.endDate)
  \/ \E header \in Headers, q \in ChallengeQueries :
       AuthGetChallenges(header, q.creatorId, q.title)

\* the leaderboard leaves the user store enumerating as before
SortKeepsOrder ==
  \A size \in Sizes : \A page \in Pages : \A limit \in Limits :
    (Answers("leaderboard") /\ GetLeaderboard(size, page, limit)) =>
      KeyOrder(usersStorage', DOMAIN usersStorage')
        = KeyOrder(usersStorage, DOMAIN usersStorage)

C22_ReadsChangeNothing ==
  [][/\ UNCHANGED stores \/ ~IsRead
     /\ SortKeepsOrder
     /\ ReadRepeats]_vars

\* the leaderboard has just listed the users in another order than the
\* store enumerates them
C22_Witness ==
  /\ "leaderboard" \in DOMAIN res
  /\ Len(res.leaderboard) = Cardinality(UserIds)
  /\ res.leaderboard # KeyOrder(usersStorage, DOMAIN usersStorage)

(***************************************************************************)
(* C23: no stored record is ever removed; the id, name and email of a User *)
(* and every field of an Activity never change; the participants of a      *)
(* Challenge only grow at the end; a successful record-activity adds one   *)
(* Activity and changes the points of its user and nothing else, and a     *)
(* successful join appends to the participants of its challenge and        *)
(* changes nothing else.                                                   *)
(***************************************************************************)
IsPrefix(old, new) ==
  Len(old) <= Len(new) /\ SubSeq(new, 1, Len(old)) = old

AppendOnly ==
  /\ DOMAIN usersStorage \subseteq DOMAIN usersStorage'
  /\ DOMAIN activitiesStorage \subseteq DOMAIN activitiesStorage'
  /\ DOMAIN challengesStorage \subseteq DOMAIN challengesStorage'
  /\ DOMAIN followsStorage \subseteq DOMAIN followsStorage'
  /\ \A k \in DOMAIN usersStorage :
       /\ usersStorage'[k].id = usersStorage[k].id
       /\ usersStorage'[k].name = usersStorage[k].name
       /\ usersStorage'[k].email = usersStorage[k].email
  /\ \A k \in DOMAIN activitiesStorage :
       activitiesStorage'[k] = activitiesStorage[k]
  /\ \A k \in DOMAIN challengesStorage :
       IsPrefix(challengesStorage[k].participants,
                challengesStorage'[k].participants)

\* a successful record-activity for user u touches nothing but its target
RecordFrame(u) ==
  /\ Cardinality(DOMAIN activitiesStorage' \ DOMAIN activitiesStorage) = 1
  /\ \A k \in DOMAIN activitiesStorage' \ DOMAIN activitiesStorage :
       activitiesStorage'[k].userId = u
  /\ DOMAIN usersStorage' = DOMAIN usersStorage
  /\ \A k \in DOMAIN usersStorage \ {u} : usersStorage'[k] = usersStorage[k]
  /\ [usersStorage'[u] EXCEPT !.points = usersStorage[u].points] = usersStorage[u]
  /\ UNCHANGED <<challengesStorage, followsStorage>>

\* a successful join of u to challenge c touches nothing but its target
JoinFrame(c, u) ==
  /\ DOMAIN challengesStorage' = DOMAIN challengesStorage
  /\ \A k \in DOMAIN challengesStorage \ {c} :
       challengesStorage'[k] = challengesStorage[k]
  /\ challengesStorage'[c].participants
       = challengesStorage[c].participants \o <<u>>
  /\ [challengesStorage'[c] EXCEPT
        !.participants = challengesStorage[c].participants] = challengesStorage[c]
  /\ UNCHANGED <<usersStorage, activitiesStorage, followsStorage>>

C23_AppendOnlyStores ==
  [][/\ AppendOnly
     /\ \A u \in RequestUserIds : \A d \in Durations :
          (res' = Created /\ RecordCall(u, d)) => RecordFrame(u)
     /\ \A c \in ChallengeIds : \A u \in RequestUserIds :
          (res' = Joined /\ JoinCall(c, u)) => JoinFrame(c, u)]_vars

\* a user with an activity recorded has just joined a challenge
C23_Witness ==
  /\ res = Joined
  /\ \E k \in DOMAIN usersStorage :
       /\ usersStorage[k].points # Num(0)
       /\ \E c \in DOMAIN challengesStorage :
            includes(challengesStorage[c].participants, k)
  /\ DOMAIN activitiesStorage # {}

====
